---- MODULE Spec2Model ----
(***************************************************************************)
(* Model of scripts/verify_firebase_deployment.py: one run of main(), in   *)
(* which a FirebaseDeploymentVerifier executes its seven check groups,     *)
(* renders its report and exits.                                           *)
(*                                                                         *)
(* The project tree the script inspects is described by the set of its     *)
(* defects with respect to a fully configured project: files that are      *)
(* missing, files whose read_text() raises, markers a file lacks and       *)
(* placeholder patterns the options file contains.  A file's content is    *)
(* abstracted to the set of probed substrings it contains, which is all    *)
(* the script ever asks of it.                                             *)
(*                                                                         *)
(* A message is the tuple of the fragments whose concatenation is the      *)
(* printed string: fragments are cut at the interpolation points of the    *)
(* f-strings and around a path that a literal spells out.                  *)
(***************************************************************************)
EXTENDS Integers, Sequences, FiniteSets, TLC

\* Largest number of defects of an inspected project tree.
MaxDefects == 2

Range(s) == {s[i] : i \in DOMAIN s}

---------------------------------------------------------------------------
(* The probed paths and the literals the checks look for.                  *)

OptionsFile == "lib/firebase_options.dart"
GoogleServicesJson == "android/app/google-services.json"
BuildGradle == "android/app/build.gradle"
GoogleServiceInfoPlist == "ios/Runner/GoogleService-Info.plist"
InfoPlist == "ios/Runner/Info.plist"
IndexHtml == "web/index.html"
Pubspec == "pubspec.yaml"
FirestoreRules == "firestore.rules"
StorageRules == "storage.rules"

Files ==
  {OptionsFile, GoogleServicesJson, BuildGradle, GoogleServiceInfoPlist,
   InfoPlist, IndexHtml, Pubspec, FirestoreRules, StorageRules}

\* The files whose content is read with read_text().
ContentFiles == {OptionsFile, BuildGradle, InfoPlist, IndexHtml, Pubspec}

placeholder_patterns ==
  <<"placeholder-project-id", "your-project-id", "your-app-id",
    "your-api-key", "example\\.com", "com\\.example\\.">>

ProjectId == "lca5kr3efmasxydmsi1rvyjoizifj4"

platforms == <<"android", "ios", "web", "macos", "windows">>

firebase_packages ==
  <<"firebase_core", "firebase_auth", "cloud_firestore", "firebase_storage",
    "firebase_messaging", "firebase_analytics", "firebase_remote_config">>

GmsPlugin == "com.google.gms.google-services"
FirebaseBom == "firebase-bom"
UrlTypes == "CFBundleURLTypes"
FirebaseWord == "firebase"

\* f'static const FirebaseOptions {platform}'
PlatformDecl(platform) == <<"static const FirebaseOptions ", platform>>

\* str.capitalize() on the five platform names.
capitalize(platform) ==
  CASE platform = "android" -> "Android"
    [] platform = "ios" -> "Ios"
    [] platform = "web" -> "Web"
    [] platform = "macos" -> "Macos"
    [] platform = "windows" -> "Windows"

---------------------------------------------------------------------------
(* The inspected project tree.                                             *)

\* The substrings a fully configured file contains.
WantedMarkers(f) ==
  CASE f = OptionsFile ->
         {<<ProjectId>>} \cup {PlatformDecl(platforms[i]) : i \in DOMAIN platforms}
    [] f = BuildGradle -> {<<GmsPlugin>>, <<FirebaseBom>>}
    [] f = InfoPlist -> {<<UrlTypes>>}
    [] f = IndexHtml -> {<<FirebaseWord>>}
    [] f = Pubspec -> {<<firebase_packages[i]>> : i \in DOMAIN firebase_packages}
    [] OTHER -> {}

AllDefects ==
  {<<"missing", f, <<>>>> : f \in Files}
    \cup {<<"unreadable", f, <<>>>> : f \in ContentFiles}
    \cup {<<"contains", OptionsFile, <<placeholder_patterns[i]>>>> :
            i \in DOMAIN placeholder_patterns}
    \cup UNION {{<<"lacks", f, m>> : m \in WantedMarkers(f)} : f \in ContentFiles}

RECURSIVE SubsetsUpTo(_, _)
SubsetsUpTo(S, k) ==
  IF k = 0 THEN {{}}
  ELSE LET P == SubsetsUpTo(S, k - 1)
       IN  P \cup {p \cup {x} : p \in P, x \in S}

\* The results subprocess.run(['flutter', 'build', 'apk', '--debug']) can have.
StderrTexts == {"", "FAILURE: Build failed with an exception."}
BuildOutcomes ==
  {[kind |-> "completed", returncode |-> 0, text |-> ""]}
    \cup {[kind |-> "completed", returncode |-> 1, text |-> t] : t \in StderrTexts}
    \cup {[kind |-> "TimeoutExpired", returncode |-> 0, text |-> ""],
          [kind |-> "FileNotFoundError", returncode |-> 0, text |-> ""],
          [kind |-> "Exception", returncode |-> 0,
           text |-> "[Errno 13] Permission denied: 'flutter'"]}

VARIABLES
  project,        \* the defects of the inspected project tree
  verifier,       \* the FirebaseDeploymentVerifier and the console it prints to
  subprocess_run, \* <<>> before the build is attempted, then <<its outcome>>
  report,         \* the reports generate_report has rendered
  exit_status,    \* <<>> while running, then <<[code, message]>>
  pc              \* the call of run_all_checks / main to execute next

vars == <<project, verifier, subprocess_run, report, exit_status, pc>>

\* Path.exists()
exists(f) == <<"missing", f, <<>>>> \notin project

\* Whether Path.read_text() returns (it raises otherwise).
readable(f) == <<"unreadable", f, <<>>>> \notin project

\* re.search(pattern, content) / marker in content, on the content of f.
contains(f, m) ==
  IF f = OptionsFile /\ m \in {<<placeholder_patterns[i]>> : i \in DOMAIN placeholder_patterns}
  THEN <<"contains", f, m>> \in project
  ELSE <<"lacks", f, m>> \notin project

---------------------------------------------------------------------------
(* The aggregator.                                                         *)

new_verifier ==
  [issues |-> <<>>, warnings |-> <<>>, success_count |-> 0, total_checks |-> 0,
   stdout |-> <<>>]

print(self, kind, message) ==
  [self EXCEPT !.stdout = Append(@, <<kind, message>>)]

log_success(self, message) ==
  [print(self, "success", message) EXCEPT
     !.success_count = @ + 1, !.total_checks = @ + 1]

\* log_warning without its count: the warning is appended, the total is not.
log_warning_uncounted(self, message) ==
  [print(self, "warning", message) EXCEPT !.warnings = Append(@, message)]

log_warning(self, message) ==
  [print(self, "warning", message) EXCEPT
     !.warnings = Append(@, message), !.total_checks = @ + 1]

\* log_error putting the newest error first.
log_error_newest_first(self, message) ==
  [print(self, "error", message) EXCEPT
     !.issues = <<message>> \o @, !.total_checks = @ + 1]

log_error(self, message) ==
  [print(self, "error", message) EXCEPT
     !.issues = Append(@, message), !.total_checks = @ + 1]

check_file_exists(self, file_path, description) ==
  IF exists(file_path)
  THEN log_success(self, <<description, ": ", file_path>>)
  ELSE log_error(self, <<description, ": ", file_path, " - FILE MISSING">>)

\* How a check group ends: it returns, or an exception leaves it.
Returns(self) == [self |-> self, raised |-> FALSE]
Raises(self) == [self |-> self, raised |-> TRUE]

---------------------------------------------------------------------------
(* The check groups.  Each takes the verifier and yields the verifier it   *)
(* leaves behind, with whether an exception left the group.                *)

RECURSIVE scan_placeholders(_, _)
scan_placeholders(self, i) ==
  IF i > Len(placeholder_patterns) THEN self
  ELSE LET pattern == placeholder_patterns[i]
       IN  scan_placeholders(
             IF contains(OptionsFile, <<pattern>>)
             THEN log_error(self, <<"Found placeholder pattern: ", pattern>>)
             ELSE self,
             i + 1)

check_project_id(self) ==
  IF contains(OptionsFile, <<ProjectId>>)
  THEN log_success(self, <<"Real Firebase project ID found">>)
  ELSE log_error(self, <<"Real Firebase project ID not found">>)

RECURSIVE scan_platforms(_, _)
scan_platforms(self, i) ==
  IF i > Len(platforms) THEN self
  ELSE LET platform == platforms[i]
       IN  scan_platforms(
             IF contains(OptionsFile, PlatformDecl(platform))
             THEN log_success(self, <<capitalize(platform), " configuration present">>)
             ELSE log_warning(self, <<capitalize(platform), " configuration missing">>),
             i + 1)

check_firebase_options(self) ==
  LET s0 == print(self, "header", <<"Checking Firebase Options Configuration...">>)
  IN  IF ~exists(OptionsFile)
      THEN Returns(log_error(s0, <<"Firebase options file not found">>))
      ELSE IF ~readable(OptionsFile)
      THEN Raises(s0)
      ELSE Returns(scan_platforms(check_project_id(scan_placeholders(s0, 1)), 1))

check_android_config(self) ==
  LET s0 == print(self, "header", <<"Checking Android Configuration...">>)
      s1 == check_file_exists(s0, GoogleServicesJson, "Google Services JSON")
      s2 == IF contains(BuildGradle, <<GmsPlugin>>)
            THEN log_success(s1, <<"Google Services plugin integrated">>)
            ELSE log_error(s1, <<"Google Services plugin not integrated">>)
      s3 == IF contains(BuildGradle, <<FirebaseBom>>)
            THEN log_success(s2, <<"Firebase BoM dependency present">>)
            ELSE log_warning(s2, <<"Firebase BoM dependency missing">>)
  IN  IF ~exists(BuildGradle) THEN Returns(s1)
      ELSE IF ~readable(BuildGradle) THEN Raises(s1)
      ELSE Returns(s3)

check_ios_config(self) ==
  LET s0 == print(self, "header", <<"Checking iOS Configuration...">>)
      s1 == check_file_exists(s0, GoogleServiceInfoPlist, "GoogleService-Info.plist")
      s2 == IF contains(InfoPlist, <<UrlTypes>>)
            THEN log_success(s1, <<"URL schemes configured">>)
            ELSE log_warning(s1, <<"URL schemes not configured">>)
  IN  IF ~exists(InfoPlist) THEN Returns(s1)
      ELSE IF ~readable(InfoPlist) THEN Raises(s1)
      ELSE Returns(s2)

check_web_config(self) ==
  LET s0 == print(self, "header", <<"Checking Web Configuration...">>)
  IN  IF ~exists(IndexHtml)
      THEN Returns(log_warning(s0, <<"Web ", "index.html", " not found">>))
      ELSE IF ~readable(IndexHtml) THEN Raises(s0)
      ELSE IF contains(IndexHtml, <<FirebaseWord>>)
      THEN Returns(log_success(s0, <<"Firebase scripts in ", "index.html">>))
      ELSE Returns(log_warning(s0, <<"Firebase scripts not found in ", "index.html">>))

RECURSIVE scan_packages(_, _)
scan_packages(self, i) ==
  IF i > Len(firebase_packages) THEN self
  ELSE LET package == firebase_packages[i]
       IN  scan_packages(
             IF contains(Pubspec, <<package>>)
             THEN log_success(self, <<package, " dependency present">>)
             ELSE log_warning(self, <<package, " dependency missing">>),
             i + 1)

check_dependencies(self) ==
  LET s0 == print(self, "header", <<"Checking Dependencies...">>)
  IN  IF ~exists(Pubspec)
      THEN Returns(log_error(s0, <<Pubspec, " not found">>))
      ELSE IF ~readable(Pubspec) THEN Raises(s0)
      ELSE Returns(scan_packages(s0, 1))

\* check_build_status with the timeout handled like the other exceptions.
check_build_status_timeout_error(self, result) ==
  LET s0 == print(self, "header", <<"Checking Build Status...">>)
  IN  CASE result.kind = "completed" ->
             IF result.returncode = 0
             THEN log_success(s0, <<"App builds successfully">>)
             ELSE log_error(s0, <<"Build failed: ", result.text>>)
        [] result.kind = "FileNotFoundError" ->
             log_error(s0, <<"Flutter not found in PATH">>)
        [] OTHER ->
             log_error(s0, <<"Build check failed: ", result.text>>)

check_build_status(self, result) ==
  LET s0 == print(self, "header", <<"Checking Build Status...">>)
  IN  CASE result.kind = "completed" ->
             IF result.returncode = 0
             THEN log_success(s0, <<"App builds successfully">>)
             ELSE log_error(s0, <<"Build failed: ", result.text>>)
        [] result.kind = "TimeoutExpired" ->
             log_warning(s0, <<"Build timed out (this is normal for first build)">>)
        [] result.kind = "FileNotFoundError" ->
             log_error(s0, <<"Flutter not found in PATH">>)
        [] OTHER ->
             log_error(s0, <<"Build check failed: ", result.text>>)

check_security_rules(self) ==
  LET s0 == print(self, "header", <<"Checking Security Rules...">>)
      s1 == IF exists(FirestoreRules)
            THEN log_success(s0, <<"Firestore security rules present">>)
            ELSE log_warning(s0, <<"Firestore security rules not found">>)
  IN  IF exists(StorageRules)
      THEN log_success(s1, <<"Storage security rules present">>)
      ELSE log_warning(s1, <<"Storage security rules not found">>)

generate_report(self) ==
  [total_checks |-> self.total_checks,
   successful |-> self.success_count,
   n_warnings |-> Len(self.warnings),
   n_issues |-> Len(self.issues),
   critical_issues |-> self.issues,
   warnings_to_address |-> self.warnings,
   status |-> IF self.issues = <<>> THEN "READY!" ELSE "NOT READY"]

\* run_all_checks attempting the build before it checks the security rules.
run_all_checks_build_first ==
  <<"check_firebase_options", "check_android_config", "check_ios_config",
    "check_web_config", "check_dependencies", "check_build_status",
    "check_security_rules", "generate_report", "return">>

\* The calls of run_all_checks in order, then its return to main.
run_all_checks ==
  <<"check_firebase_options", "check_android_config", "check_ios_config",
    "check_web_config", "check_dependencies", "check_security_rules",
    "check_build_status", "generate_report", "return">>

\* run_all_checks failing the run on warnings too.
run_all_checks_result_no_warnings(self) ==
  Len(self.issues) = 0 /\ Len(self.warnings) = 0

\* The value run_all_checks returns.
run_all_checks_result(self) == Len(self.issues) = 0

\* main()'s last print and the code it passes to sys.exit.
main_exit(success) ==
  IF success
  THEN [code |-> 0,
        message |-> "All checks passed! Your Firebase configuration is ready for deployment."]
  ELSE [code |-> 1,
        message |-> "Some issues were found. Please fix them before deploying."]

\* An exception nothing catches: the interpreter prints the traceback and
\* the process ends with status 1.
uncaught == [code |-> 1, message |-> "Traceback (most recent call last):"]

Follows(call) ==
  LET i == CHOOSE j \in DOMAIN run_all_checks : run_all_checks[j] = call
  IN  run_all_checks[i + 1]

---------------------------------------------------------------------------
(* The run.                                                                *)

Init ==
  /\ project \in SubsetsUpTo(AllDefects, MaxDefects)
  /\ verifier = new_verifier
  /\ subprocess_run = <<>>
  /\ report = <<>>
  /\ exit_status = <<>>
  /\ pc = run_all_checks[1]

\* A check group that reads files ends by returning or by an exception
\* that nothing between it and the interpreter catches.
Ends(r) ==
  /\ verifier' = r.self
  /\ pc' = IF r.raised THEN "crashed" ELSE Follows(pc)
  /\ exit_status' = IF r.raised THEN <<uncaught>> ELSE exit_status
  /\ UNCHANGED <<project, subprocess_run, report>>

CheckFirebaseOptions ==
  /\ pc = "check_firebase_options"
  /\ Ends(check_firebase_options(verifier))

CheckAndroidConfig ==
  /\ pc = "check_android_config"
  /\ Ends(check_android_config(verifier))

CheckIosConfig ==
  /\ pc = "check_ios_config"
  /\ Ends(check_ios_config(verifier))

CheckWebConfig ==
  /\ pc = "check_web_config"
  /\ Ends(check_web_config(verifier))

CheckDependencies ==
  /\ pc = "check_dependencies"
  /\ Ends(check_dependencies(verifier))

CheckSecurityRules ==
  /\ pc = "check_security_rules"
  /\ Ends(Returns(check_security_rules(verifier)))

CheckBuildStatus ==
  /\ pc = "check_build_status"
  /\ \E result \in BuildOutcomes :
       /\ subprocess_run' = <<result>>
       /\ verifier' = check_build_status(verifier, result)
  /\ pc' = Follows(pc)
  /\ UNCHANGED <<project, report, exit_status>>

GenerateReport ==
  /\ pc = "generate_report"
  /\ report' = Append(report, generate_report(verifier))
  /\ pc' = Follows(pc)
  /\ UNCHANGED <<project, verifier, subprocess_run, exit_status>>

MainExit ==
  /\ pc = "return"
  /\ exit_status' = <<main_exit(run_all_checks_result(verifier))>>
  /\ pc' = "exited"
  /\ UNCHANGED <<project, verifier, subprocess_run, report>>

Next ==
  \/ CheckFirebaseOptions
  \/ CheckAndroidConfig
  \/ CheckIosConfig
  \/ CheckWebConfig
  \/ CheckDependencies
  \/ CheckSecurityRules
  \/ CheckBuildStatus
  \/ GenerateReport
  \/ MainExit

Spec == Init /\ [][Next]_vars

---------------------------------------------------------------------------
(* Vocabulary of the properties.                                           *)

Console == verifier.stdout

IsPrefix(s, t) == Len(s) <= Len(t) /\ SubSeq(t, 1, Len(s)) = s

\* The message spells out the fragment.
Mentions(message, fragment) == fragment \in Range(message)

\* The console lines that carry a recorded outcome.
OutcomeLines == {i \in DOMAIN Console : Console[i][1] # "header"}

LinesOfKind(kind) == {i \in DOMAIN Console : Console[i][1] = kind}

OptionsHeader == <<"Checking Firebase Options Configuration...">>
RulesHeader == <<"Checking Security Rules...">>
BuildHeader == <<"Checking Build Status...">>

GroupHeaders ==
  <<OptionsHeader,
    <<"Checking Android Configuration...">>,
    <<"Checking iOS Configuration...">>,
    <<"Checking Web Configuration...">>,
    <<"Checking Dependencies...">>,
    RulesHeader,
    BuildHeader>>

\* The headers printed so far, in the order printed.
RECURSIVE HeadersIn(_)
HeadersIn(lines) ==
  IF lines = <<>> THEN <<>>
  ELSE IF Head(lines)[1] = "header"
  THEN <<Head(lines)[2]>> \o HeadersIn(Tail(lines))
  ELSE HeadersIn(Tail(lines))

\* The lines a group printed after its header, up to the next header.
GroupLines(header) ==
  LET at == {i \in DOMAIN Console : Console[i] = <<"header", header>>}
  IN  IF at = {} THEN <<>>
      ELSE LET first == CHOOSE i \in at : \A j \in at : i <= j
               later == {j \in LinesOfKind("header") : j > first}
               last == IF later = {} THEN Len(Console)
                       ELSE (CHOOSE j \in later : \A k \in later : j <= k) - 1
           IN  SubSeq(Console, first + 1, last)

Started(header) == <<"header", header>> \in Range(Console)

\* The call of run_all_checks has been made and has returned.
Finished(call) ==
  \/ pc = "exited"
  \/ /\ pc \in Range(run_all_checks)
     /\ \E i \in DOMAIN run_all_checks, j \in DOMAIN run_all_checks :
          run_all_checks[i] = call /\ run_all_checks[j] = pc /\ i < j

TimeoutMessage == <<"Build timed out (this is normal for first build)">>
TimedOut == subprocess_run # <<>> /\ subprocess_run[1].kind = "TimeoutExpired"

---------------------------------------------------------------------------
\* The counters agree with each other and with the outcomes printed.
C1_TotalIsSum ==
  /\ verifier.total_checks
       = verifier.success_count + Len(verifier.warnings) + Len(verifier.issues)
  /\ verifier.total_checks = Cardinality(OutcomeLines)
  /\ verifier.success_count = Cardinality(LinesOfKind("success"))

(* C1.  In every reachable state total_checks equals success_count plus    *)
(* the number of recorded warnings plus the number of recorded errors;     *)
(* every outcome printed is counted exactly once, and total_checks never   *)
(* decreases.                                                              *)
C1_TotalChecks ==
  [](C1_TotalIsSum) /\ [][verifier'.total_checks >= verifier.total_checks]_vars

C1_Witness ==
  /\ pc = "exited"
  /\ verifier.success_count > 0
  /\ Len(verifier.warnings) > 0
  /\ Len(verifier.issues) > 0

(* C2.  When the run reaches its end (main calls sys.exit), the banner is  *)
(* READY and the exit code is 0 if and only if the error list is empty,    *)
(* whatever the number of warnings; with one or more errors the banner is  *)
(* NOT READY and the exit code is 1.  Banner and exit code never disagree. *)
C2_ReadyIffNoErrors ==
  pc = "exited" =>
    /\ Len(report) = 1 /\ Len(exit_status) = 1
    /\ (report[1].status = "READY!") <=> (verifier.issues = <<>>)
    /\ (report[1].status = "NOT READY") <=> (verifier.issues # <<>>)
    /\ (exit_status[1].code = 0) <=> (verifier.issues = <<>>)
    /\ (exit_status[1].code = 1) <=> (verifier.issues # <<>>)
    /\ (report[1].status = "READY!") <=> (exit_status[1].code = 0)

C2_Witness ==
  /\ pc = "exited"
  /\ Len(verifier.warnings) >= 2
  /\ verifier.issues = <<>>
  /\ exit_status[1].code = 0
  /\ report[1].status = "READY!"

(* C3.  Every failure inside a check group, an error while reading an      *)
(* existing file included, becomes a recorded Warning or Error and never   *)
(* leaves the group: no exception ends the run, and the process never      *)
(* exits before the report is rendered.                                    *)
C3_NoFailureEscapes ==
  /\ pc # "crashed"
  /\ exit_status # <<>> => Len(report) = 1

(* C4, as stated.  A build that times out yields exactly one Warning and   *)
(* no Error from the build group, and the security-rule checks execute and *)
(* record their results after the timeout has occurred.                    *)
C4_RulesAfterTimeout ==
  (TimedOut /\ pc = "exited") =>
    /\ GroupLines(BuildHeader) = << <<"warning", TimeoutMessage>> >>
    /\ \E t \in DOMAIN Console :
         /\ Console[t] = <<"warning", TimeoutMessage>>
         /\ \E i \in DOMAIN Console : i > t /\ Console[i] = <<"header", RulesHeader>>

(* C4, amended.  A build that times out yields exactly one Warning and no  *)
(* Error from the build group and does not abort the run: the build group  *)
(* is the last one, so the security-rule checks have already executed and  *)
(* recorded their two results before the build is attempted, and the       *)
(* report is rendered next.                                                *)
C4_TimeoutIsOneWarning ==
  TimedOut =>
    /\ GroupLines(BuildHeader) = << <<"warning", TimeoutMessage>> >>
    /\ Console[Len(Console)] = <<"warning", TimeoutMessage>>
    /\ verifier.warnings[Len(verifier.warnings)] = TimeoutMessage
    /\ Cardinality({i \in DOMAIN verifier.warnings :
                      verifier.warnings[i] = TimeoutMessage}) = 1
    /\ Len(GroupLines(RulesHeader)) = 2
    /\ \E r \in DOMAIN Console, b \in DOMAIN Console :
         /\ Console[r] = <<"header", RulesHeader>>
         /\ Console[b] = <<"header", BuildHeader>>
         /\ b = r + 3
    /\ pc \in {"generate_report", "return", "exited"}
    /\ pc = "generate_report" <=> report = <<>>
    /\ pc # "generate_report" =>
         /\ Len(report) = 1
         /\ report[1].warnings_to_address = verifier.warnings

C4_Witness ==
  /\ TimedOut
  /\ pc = "exited"
  /\ Len(report) = 1

\* The files whose absence the policy makes an Error.
MandatoryFiles ==
  {OptionsFile, GoogleServicesJson, GoogleServiceInfoPlist, Pubspec, BuildGradle}

Description(f) ==
  CASE f = OptionsFile -> "Firebase options file"
    [] f = GoogleServicesJson -> "Google Services JSON"
    [] f = GoogleServiceInfoPlist -> "GoogleService-Info.plist"
    [] f = Pubspec -> "pubspec.yaml"
    [] f = BuildGradle -> "build.gradle"

ErrorsFor(f) == {i \in DOMAIN verifier.issues : Mentions(verifier.issues[i], f)}

(* C5.  For every mandatory file (the options file, google-services.json,  *)
(* GoogleService-Info.plist, pubspec.yaml and android/app/build.gradle),   *)
(* when the file is absent the run records exactly one Error for it, whose *)
(* message references both the file's description and its path.            *)
C5_MissingMandatoryFile ==
  pc = "exited" =>
    \A f \in MandatoryFiles :
      ~exists(f) =>
        /\ Cardinality(ErrorsFor(f)) = 1
        /\ \A i \in ErrorsFor(f) : Mentions(verifier.issues[i], Description(f))

\* The files whose absence the policy makes a Warning.
OptionalFiles == {FirestoreRules, StorageRules, IndexHtml, InfoPlist}

\* The messages the script has about an optional file.
MessagesAbout(f) ==
  CASE f = FirestoreRules ->
         {<<"Firestore security rules present">>, <<"Firestore security rules not found">>}
    [] f = StorageRules ->
         {<<"Storage security rules present">>, <<"Storage security rules not found">>}
    [] f = IndexHtml ->
         {<<"Web ", "index.html", " not found">>, <<"Firebase scripts in ", "index.html">>,
          <<"Firebase scripts not found in ", "index.html">>}
    [] f = InfoPlist ->
         {<<"URL schemes configured">>, <<"URL schemes not configured">>}

(* C6.  For every optional file (firestore.rules, storage.rules,           *)
(* web/index.html and ios/Runner/Info.plist), when the file is absent the  *)
(* run records exactly one Warning for it and never an Error.              *)
C6_MissingOptionalFile ==
  pc = "exited" =>
    \A f \in OptionalFiles :
      ~exists(f) =>
        /\ Cardinality({i \in LinesOfKind("warning") :
                          Console[i][2] \in MessagesAbout(f)}) = 1
        /\ {i \in LinesOfKind("error") : Console[i][2] \in MessagesAbout(f)} = {}

\* The placeholder patterns the content of the options file contains.
FoundPlaceholders ==
  {placeholder_patterns[i] :
     i \in {j \in DOMAIN placeholder_patterns :
              contains(OptionsFile, <<placeholder_patterns[j]>>)}}

OptionsLines == GroupLines(OptionsHeader)

(* C7.  When the options file exists and its content contains a known      *)
(* placeholder pattern, the options group records one Error per pattern    *)
(* found and, independently, one Success for the file's existence.         *)
C7_ExistenceAndPlaceholderRecorded ==
  (/\ Finished("check_firebase_options")
   /\ exists(OptionsFile) /\ readable(OptionsFile)
   /\ FoundPlaceholders # {}) =>
    /\ \A p \in FoundPlaceholders :
         Cardinality({i \in DOMAIN OptionsLines :
            OptionsLines[i] = <<"error", <<"Found placeholder pattern: ", p>>>>}) = 1
    /\ \E i \in DOMAIN OptionsLines :
         /\ OptionsLines[i][1] = "success"
         /\ \/ Mentions(OptionsLines[i][2], OptionsFile)
            \/ Mentions(OptionsLines[i][2], Description(OptionsFile))

\* The checks that print a line whichever way they go, each as the set of
\* the messages it can print.
Checks ==
  {{<<"Real Firebase project ID found">>, <<"Real Firebase project ID not found">>},
   {<<"Google Services plugin integrated">>, <<"Google Services plugin not integrated">>},
   {<<"Firebase BoM dependency present">>, <<"Firebase BoM dependency missing">>},
   {<<"Google Services JSON", ": ", GoogleServicesJson>>,
    <<"Google Services JSON", ": ", GoogleServicesJson, " - FILE MISSING">>},
   {<<"GoogleService-Info.plist", ": ", GoogleServiceInfoPlist>>,
    <<"GoogleService-Info.plist", ": ", GoogleServiceInfoPlist, " - FILE MISSING">>}}
    \cup {MessagesAbout(f) : f \in OptionalFiles}
    \cup {{<<capitalize(platforms[i]), " configuration present">>,
           <<capitalize(platforms[i]), " configuration missing">>} : i \in DOMAIN platforms}
    \cup {{<<firebase_packages[i], " dependency present">>,
           <<firebase_packages[i], " dependency missing">>} : i \in DOMAIN firebase_packages}

Ended == pc \in {"exited", "crashed"}

(* C8.  In every run the check groups execute in the fixed order options,  *)
(* Android, iOS, web, dependencies, security rules, build; every check of  *)
(* every group runs exactly once, none repeated or skipped whatever the    *)
(* outcome of earlier probes; and the report is rendered exactly once,     *)
(* after the last group.                                                   *)
C8_EveryCheckOnceInOrder ==
  Ended =>
    /\ HeadersIn(Console) = GroupHeaders
    /\ \A c \in Checks : Cardinality({i \in OutcomeLines : Console[i][2] \in c}) = 1
    /\ Len(GroupLines(BuildHeader)) = 1
    /\ Len(report) = 1

(* C9.  The aggregator is append-only: across every step the warning list  *)
(* and the error list before the step are prefixes of the lists after it   *)
(* and the success count never decreases; rendering the report leaves the  *)
(* aggregator unchanged and the report lists all recorded errors and all   *)
(* recorded warnings in their order of occurrence.                         *)
C9_AppendOnly ==
  [][/\ IsPrefix(verifier.issues, verifier'.issues)
     /\ IsPrefix(verifier.warnings, verifier'.warnings)
     /\ IsPrefix(verifier.stdout, verifier'.stdout)
     /\ verifier'.success_count >= verifier.success_count
     /\ report' # report =>
          /\ verifier' = verifier
          /\ report' = Append(report, report'[Len(report')])
          /\ report'[Len(report')].critical_issues = verifier.issues
          /\ report'[Len(report')].warnings_to_address = verifier.warnings]_vars

C9_Witness ==
  /\ Len(report) = 1
  /\ Len(report[1].critical_issues) >= 2
  /\ report[1].critical_issues[1] # report[1].critical_issues[2]
  /\ Len(report[1].warnings_to_address) >= 1

\* The classification of the results of the build invocation.
BuildClass(result) ==
  CASE result.kind = "completed" /\ result.returncode = 0 -> "success"
    [] result.kind = "completed" /\ result.returncode # 0 -> "error"
    [] result.kind = "TimeoutExpired" -> "warning"
    [] result.kind = "FileNotFoundError" -> "error"
    [] OTHER -> "error"

(* C10.  The build group records exactly one outcome for every result of   *)
(* the build invocation: exit code 0 a Success, a non-zero exit code an    *)
(* Error, a timeout a Warning, a missing build tool an Error, any other    *)
(* failure of the invocation an Error.                                     *)
C10_BuildRecordsOneOutcome ==
  /\ subprocess_run = <<>> => ~Started(BuildHeader)
  /\ subprocess_run # <<>> =>
       /\ Len(subprocess_run) = 1
       /\ Len(GroupLines(BuildHeader)) = 1
       /\ GroupLines(BuildHeader)[1][1] = BuildClass(subprocess_run[1])
       /\ LET line == GroupLines(BuildHeader)[1]
          IN  /\ line = Console[Len(Console)]
              /\ line[1] = "error" =>
                   verifier.issues # <<>> /\ verifier.issues[Len(verifier.issues)] = line[2]
              /\ line[1] = "warning" =>
                   verifier.warnings # <<>>
                     /\ verifier.warnings[Len(verifier.warnings)] = line[2]
       /\ Cardinality({i \in OutcomeLines :
             \E j \in DOMAIN Console :
               j < i /\ Console[j] = <<"header", BuildHeader>>}) = 1

C10_Witness ==
  /\ subprocess_run # <<>>
  /\ subprocess_run[1].kind = "Exception"
  /\ Len(GroupLines(BuildHeader)) = 1
  /\ pc = "exited"

====
